---- MODULE Spec2Model ----
(***************************************************************************)
(* Light-client finality verification of ComposableFi/centauri:            *)
(*   - ics07-tendermint client_message.rs: Header::get_zk_input,           *)
(*     headers_compatible, TryFrom<RawHeader> for Header;                   *)
(*   - the BEEFY light client driven by src/tests.rs                        *)
(*     (verify_mmr_root_with_proof, verify_parachain_headers), and relay    *)
(*     workers sharing its ClientState;                                     *)
(*   - hyperspace packets/utils.rs: verify_delay_passed,                    *)
(*     get_timeout_proof_height;                                            *)
(*   - hyperspace cosmos/utils.rs: collect_signatures_for_finalized_block.  *)
(* Each routine is a small machine of its own: its inputs are drawn when   *)
(* the call is made, the call runs to completion in one step, and the      *)
(* inputs stay in the state next to the result.                            *)
(***************************************************************************)
EXTENDS Integers, Sequences, FiniteSets, TLC

VARIABLES zk_pc, zk_header, zk_size, zk_result,
          hc_pc, hc_header, hc_other, hc_result,
          rh_pc, rh_raw, rh_result,
          client_state, beefy_pc, trusted_state, mmr_update, beefy_result,
          relay_start, relay_lock, relay_version, relay_pc, relay_snapshot,
          relay_read_version, relay_update, relay_result,
          para_pc, para_mmr_root_hash, para_update, para_result,
          delay_pc, delay_args, delay_result,
          timeout_pc, timeout_args, timeout_result,
          cs_pc, cs_header, cs_circuit_size, cs_result,
          cm_pc, cm_msg, cm_any, cm_raw, cm_result

zk_vars == <<zk_pc, zk_header, zk_size, zk_result>>
hc_vars == <<hc_pc, hc_header, hc_other, hc_result>>
rh_vars == <<rh_pc, rh_raw, rh_result>>
beefy_vars == <<client_state, beefy_pc, trusted_state, mmr_update, beefy_result>>
relay_vars == <<relay_start, relay_lock, relay_version, relay_pc, relay_snapshot,
                relay_read_version, relay_update, relay_result>>
para_vars == <<para_pc, para_mmr_root_hash, para_update, para_result>>
delay_vars == <<delay_pc, delay_args, delay_result>>
timeout_vars == <<timeout_pc, timeout_args, timeout_result>>
cs_vars == <<cs_pc, cs_header, cs_circuit_size, cs_result>>
cm_vars == <<cm_pc, cm_msg, cm_any, cm_raw, cm_result>>
vars == <<zk_vars, hc_vars, rh_vars, beefy_vars, relay_vars, para_vars, delay_vars,
          timeout_vars, cs_vars, cm_vars>>

\* what a step of one routine leaves alone: the state of the other routines
zk_others == <<hc_vars, rh_vars, beefy_vars, relay_vars, para_vars,
               delay_vars, timeout_vars, cs_vars, cm_vars>>
hc_others == <<zk_vars, rh_vars, beefy_vars, relay_vars, para_vars,
               delay_vars, timeout_vars, cs_vars, cm_vars>>
rh_others == <<zk_vars, hc_vars, beefy_vars, relay_vars, para_vars,
               delay_vars, timeout_vars, cs_vars, cm_vars>>
beefy_others == <<zk_vars, hc_vars, rh_vars, relay_vars, para_vars,
                  delay_vars, timeout_vars, cs_vars, cm_vars>>
relay_others == <<zk_vars, hc_vars, rh_vars, beefy_pc, trusted_state,
                  mmr_update, beefy_result, para_vars, delay_vars,
                  timeout_vars, cs_vars, cm_vars>>
para_others == <<zk_vars, hc_vars, rh_vars, beefy_vars, relay_vars,
                 delay_vars, timeout_vars, cs_vars, cm_vars>>
delay_others == <<zk_vars, hc_vars, rh_vars, beefy_vars, relay_vars,
                  para_vars, timeout_vars, cs_vars, cm_vars>>
timeout_others == <<zk_vars, hc_vars, rh_vars, beefy_vars, relay_vars,
                    para_vars, delay_vars, cs_vars, cm_vars>>
cs_others == <<zk_vars, hc_vars, rh_vars, beefy_vars, relay_vars, para_vars,
               delay_vars, timeout_vars, cm_vars>>
cm_others == <<zk_vars, hc_vars, rh_vars, beefy_vars, relay_vars, para_vars,
               delay_vars, timeout_vars, cs_vars>>

NoValue == "NoValue"

(***************************************************************************)
(* Bounds of the model.                                                    *)
(***************************************************************************)
\* longest commit.signatures list drawn for get_zk_input
MaxCommitLen == 2
\* largest voting power of one validator
MaxPower == 4

(***************************************************************************)
(* Tendermint data: validators, commit signatures.                         *)
(***************************************************************************)
\* account addresses; "c" never belongs to a validator set
Addresses == {"a", "b", "c"}
\* tendermint::PublicKey: Ed25519, or another variant of the enum
KeyTypes == {"Ed25519", "Secp256k1"}
Powers == 1..MaxPower

\* tendermint::validator::Info: address, pub_key (by its type), power
ValidatorInfo == [address : {"a", "b"}, key_type : KeyTypes, power : Powers]

\* tendermint::validator::Set: validators with distinct addresses, whose keys
\* are of one type
ValidatorSets ==
    { <<v>> : v \in {w \in ValidatorInfo : w.address = "a"} }
    \cup { vs \in { <<v, w>> : v \in {x \in ValidatorInfo : x.address = "a"},
                                w \in {x \in ValidatorInfo : x.address = "b"} } :
               vs[1].key_type = vs[2].key_type }

\* CommitSig: the block id flag, the signer and its signature.  signature is
\* "none" for Option::None, "good" for bytes that verify under the signer's
\* key over the vote's sign bytes and "bad" for bytes that do not.  A vote of
\* "c" is looked up in the validator set before its flag and signature are
\* read, and is not found: one such vote is drawn.
CommitSigs ==
    [flag : {"BlockIdFlagAbsent"}, validator_address : {NoValue}, signature : {"none"}]
    \cup [flag : {"BlockIdFlagCommit", "BlockIdFlagNil"},
          validator_address : Addresses \ {"c"},
          signature : {"none", "good", "bad"}]
    \cup [flag : {"BlockIdFlagCommit"}, validator_address : {"c"}, signature : {"good"}]

RECURSIVE SeqsUpTo(_, _)
SeqsUpTo(S, n) ==
    IF n = 0 THEN {<<>>}
    ELSE LET shorter == SeqsUpTo(S, n - 1)
         IN  shorter \cup { Append(s, x) : s \in {t \in shorter : Len(t) = n - 1}, x \in S }

Commits == SeqsUpTo(CommitSigs, MaxCommitLen)

\* Header, reduced to what get_zk_input reads
ZkHeaders == [validator_set : ValidatorSets, signatures : Commits]

RECURSIVE SumPower(_)
SumPower(s) == IF s = <<>> THEN 0 ELSE Head(s).power + SumPower(Tail(s))

\* ValidatorSet::total_voting_power
total_voting_power(validator_set) == SumPower(validator_set)

\* ValidatorSet::validator(address): the validator with that address, if any
HasValidator(validator_set, address) ==
    \E i \in 1..Len(validator_set) : validator_set[i].address = address

validator(validator_set, address) ==
    validator_set[CHOOSE i \in 1..Len(validator_set) :
                      /\ validator_set[i].address = address
                      /\ \A j \in 1..(i - 1) : validator_set[j].address # address]

\* the bytes pushed as pub_key: the key's bytes for an Ed25519 key, and the
\* empty vector otherwise
PubKeyBytes(v) == IF v.key_type = "Ed25519" THEN <<"key", v.address>> ELSE <<>>

\* non_absent_vote: None for an absent signature, the reconstructed vote otherwise
non_absent_vote(commit_sig, idx) ==
    IF commit_sig.flag = "BlockIdFlagAbsent" THEN [is_some |-> FALSE]
    ELSE [is_some |-> TRUE,
          validator_address |-> commit_sig.validator_address,
          validator_index |-> idx,
          has_block_id |-> (commit_sig.flag = "BlockIdFlagCommit"),
          signature |-> commit_sig.signature]

\* what the loop does with a vote whose validator address was seen before
DuplicateSkipped(cont) == cont
OnDuplicateVote(cont) == [err |-> "validator seen twice", pre_input |-> <<>>]

\* the loop over the non-absent votes: the error it returns, or pre_input
RECURSIVE ZkLoop(_, _, _, _, _)
ZkLoop(validator_set, signatures, idx, seen_validators, pre_input) ==
    IF idx > Len(signatures) THEN [err |-> "none", pre_input |-> pre_input]
    ELSE
      LET signature == signatures[idx]
          vote == non_absent_vote(signature, idx)
          skip == ZkLoop(validator_set, signatures, idx + 1, seen_validators, pre_input)
      IN
      IF ~vote.is_some THEN skip
      ELSE IF vote.validator_address \in seen_validators
      THEN OnDuplicateVote(skip)
      ELSE
        LET seen == seen_validators \cup {vote.validator_address}
            continue == ZkLoop(validator_set, signatures, idx + 1, seen, pre_input)
        IN
        IF ~HasValidator(validator_set, vote.validator_address) THEN continue
        \* SignedVote::from_vote is None when the vote carries no signature
        ELSE IF vote.signature = "none"
        THEN [err |-> "signed vote cannot be converted", pre_input |-> <<>>]
        ELSE IF signature.flag # "BlockIdFlagCommit" THEN continue
        \* validator.verify_signature(..).is_err() guards an empty block: the
        \* vote is pushed whether or not its signature verifies
        ELSE
          LET v == validator(validator_set, vote.validator_address)
              zk_input == [pub_key |-> PubKeyBytes(v),
                           signature |-> vote.signature,
                           message |-> <<"sign_bytes", idx>>,
                           voting_power |-> v.power]
          IN ZkLoop(validator_set, signatures, idx + 1, seen, Append(pre_input, zk_input))

\* Vec::sort_by with voting_power_2.cmp(voting_power_1): stable, descending
RECURSIVE InsertDesc(_, _)
InsertDesc(sorted, x) ==
    IF sorted = <<>> THEN <<x>>
    ELSE IF Head(sorted).voting_power >= x.voting_power
         THEN <<Head(sorted)>> \o InsertDesc(Tail(sorted), x)
         ELSE <<x>> \o sorted

RECURSIVE SortDesc(_)
SortDesc(s) ==
    IF s = <<>> THEN <<>>
    ELSE InsertDesc(SortDesc(SubSeq(s, 1, Len(s) - 1)), s[Len(s)])

\* Iterator::take(n)
TakeAll(s, n) == s
Take(s, n) == SubSeq(s, 1, IF n < Len(s) THEN n ELSE Len(s))

RECURSIVE SumVotingPower(_)
SumVotingPower(s) ==
    IF s = <<>> THEN 0 ELSE Head(s).voting_power + SumVotingPower(Tail(s))

\* u64 of the voting powers and of their products, scaled to the model's powers
U64Modulus == 16

\* one of the two u64 products of the threshold test overflows
ThresholdOverflows(voting_power_amount, total) ==
    voting_power_amount * 2 >= U64Modulus \/ total * 3 >= U64Modulus

\* the threshold test of get_zk_input: TRUE when the call returns the error.
\* Both products are u64 and wrap when the build does not check for overflow.
VotingPowerRejects(voting_power_amount, total) ==
    (voting_power_amount * 2) % U64Modulus <= (total * 3) % U64Modulus

RECURSIVE BitmaskOf(_, _, _)
BitmaskOf(not_sorted, ret, index) ==
    IF index > Len(not_sorted) THEN 0
    ELSE (IF \E k \in 1..Len(ret) : ret[k].pub_key = not_sorted[index].pub_key
          THEN 2 ^ (index - 1) ELSE 0)
         + BitmaskOf(not_sorted, ret, index + 1)

ZkErr(msg, pre_input, selected, tally) ==
    [status |-> "Err", err |-> msg, ret |-> <<>>, bitmask |-> 0,
     pre_input |-> pre_input, selected |-> selected, tally |-> tally]

\* Header::get_zk_input(size).  Besides the returned value the record keeps
\* pre_input, the `size` entries taken after the sort and their summed power,
\* so that the tally can be read when the call fails.  overflow_checks is the
\* build's setting: an overflowing product panics with it and wraps without.
get_zk_input(header, size, overflow_checks) ==
    LET loop == ZkLoop(header.validator_set, header.signatures, 1, {}, <<>>)
        total == total_voting_power(header.validator_set)
    IN
    IF loop.err # "none" THEN ZkErr(loop.err, <<>>, <<>>, 0)
    ELSE IF Len(loop.pre_input) < size
    THEN ZkErr("not enough validators have successfully signed", loop.pre_input, <<>>, 0)
    ELSE
      LET sorted == SortDesc(loop.pre_input)
          selected == Take(sorted, size)
          voting_power_amount_validator_size == SumVotingPower(selected)
      IN
      IF overflow_checks /\ ThresholdOverflows(voting_power_amount_validator_size, total)
      THEN [status |-> "Panic", err |-> "attempt to multiply with overflow",
            ret |-> <<>>, bitmask |-> 0, pre_input |-> loop.pre_input,
            selected |-> selected, tally |-> voting_power_amount_validator_size]
      ELSE IF VotingPowerRejects(voting_power_amount_validator_size, total)
      THEN ZkErr("voting power is not > 2/3 + 1", loop.pre_input, selected,
                 voting_power_amount_validator_size)
      ELSE [status |-> "Ok", err |-> "none",
            ret |-> [k \in 1..Len(selected) |->
                       <<selected[k].pub_key, selected[k].signature, selected[k].message>>],
            bitmask |-> BitmaskOf(loop.pre_input, selected, 1),
            pre_input |-> loop.pre_input, selected |-> selected,
            tally |-> voting_power_amount_validator_size]

ZkIdle ==
    /\ zk_pc = "idle"
    /\ zk_header = NoValue
    /\ zk_size = 0
    /\ zk_result = NoValue

\* a caller invokes header.get_zk_input(size)
CallGetZkInput ==
    /\ zk_pc = "idle"
    /\ \E header \in ZkHeaders, size \in 0..MaxCommitLen, overflow_checks \in BOOLEAN :
         /\ zk_header' = header
         /\ zk_size' = size
         /\ zk_result' = get_zk_input(header, size, overflow_checks)
    /\ zk_pc' = "done"
    /\ UNCHANGED zk_others

(***************************************************************************)
(* headers_compatible                                                      *)
(***************************************************************************)
\* largest block height and largest header time of a signed header
MaxTmHeight == 2
MaxTime == 2

BlockIds == {"X", "Y"}

\* SignedHeader, reduced to header.height, header.time and commit.block_id
SignedHeaders == [height : 0..MaxTmHeight, time : 0..MaxTime, block_id : BlockIds]

\* Ord::cmp
Cmp(a, b) == IF a = b THEN "Equal" ELSE IF a > b THEN "Greater" ELSE "Less"

\* the Ordering::Greater arm with >= in place of >
GreaterArmNotStrict(header, other) == header.time >= other.time
GreaterArm(header, other) == header.time > other.time

headers_compatible(header, other) ==
    LET ibc_client_height == other.height
        self_header_height == header.height
        ordering == Cmp(self_header_height, ibc_client_height)
    IN CASE ordering = "Equal" -> header.block_id = other.block_id
         [] ordering = "Greater" -> GreaterArm(header, other)
         [] ordering = "Less" -> header.time < other.time

HcIdle ==
    /\ hc_pc = "idle"
    /\ hc_header = NoValue
    /\ hc_other = NoValue
    /\ hc_result = NoValue

\* Header::compatible_with(other_header)
CallCompatibleWith ==
    /\ hc_pc = "idle"
    /\ \E header \in SignedHeaders, other \in SignedHeaders :
         /\ hc_header' = header
         /\ hc_other' = other
         /\ hc_result' = headers_compatible(header, other)
    /\ hc_pc' = "done"
    /\ UNCHANGED hc_others

(***************************************************************************)
(* TryFrom<RawHeader> for Header                                           *)
(***************************************************************************)
RevisionNumbers == {0, 1}

\* ibc Height
Heights == [revision_number : RevisionNumbers, revision_height : 0..MaxTmHeight]

\* a raw field is None, Some of a value whose conversion fails ("invalid"),
\* or Some of a convertible value ("valid"); a raw signed header carries the
\* height of its header (the revision comes from the chain id)
RawSignedHeaders ==
    [field : {"None", "invalid"}, height : {[revision_number |-> 0, revision_height |-> 0]}]
    \cup [field : {"valid"}, height : Heights]
RawValidatorSets == {"None", "invalid", "valid"}
RawTrustedHeights ==
    [field : {"None"}, height : {[revision_number |-> 0, revision_height |-> 0]}]
    \cup [field : {"valid"}, height : Heights]
RawHeaders == [signed_header : RawSignedHeaders,
               validator_set : RawValidatorSets,
               trusted_height : RawTrustedHeights,
               trusted_validators : RawValidatorSets]

\* the fields are converted in the order the struct literal lists them
HeaderTryFrom(raw) ==
    IF raw.signed_header.field = "None"
    THEN [status |-> "Err", err |-> "missing_signed_header"]
    ELSE IF raw.signed_header.field = "invalid"
    THEN [status |-> "Err", err |-> "invalid_header"]
    ELSE IF raw.validator_set = "None" THEN [status |-> "Err", err |-> "missing_validator_set"]
    ELSE IF raw.validator_set = "invalid" THEN [status |-> "Err", err |-> "invalid_raw_header"]
    ELSE IF raw.trusted_height.field = "None" THEN [status |-> "Err", err |-> "missing_trusted_height"]
    ELSE IF raw.trusted_validators = "None"
    THEN [status |-> "Err", err |-> "missing_trusted_validator_set"]
    ELSE IF raw.trusted_validators = "invalid" THEN [status |-> "Err", err |-> "invalid_raw_header"]
    ELSE [status |-> "Ok", err |-> "none",
          header |-> [height |-> raw.signed_header.height,
                      validator_set |-> raw.validator_set,
                      trusted_height |-> raw.trusted_height.height,
                      trusted_validator_set |-> raw.trusted_validators]]

RhIdle ==
    /\ rh_pc = "idle"
    /\ rh_raw = NoValue
    /\ rh_result = NoValue

\* Header::try_from(raw) (also reached through decode_header)
CallHeaderTryFrom ==
    /\ rh_pc = "idle"
    /\ \E raw \in RawHeaders :
         /\ rh_raw' = raw
         /\ rh_result' = HeaderTryFrom(raw)
    /\ rh_pc' = "done"
    /\ UNCHANGED rh_others

(***************************************************************************)
(* BEEFY: verify_mmr_root_with_proof and the loop of src/tests.rs that     *)
(* drives it.  The verifier's body is not among the sources; it follows    *)
(* section 4.4 of the specification, and the tests of src/tests.rs fix     *)
(* the order of its first checks and the error of an unknown set id.       *)
(***************************************************************************)
\* largest authority set id, largest block number, most signatures of a commitment
MaxSetId == 2
MaxBlock == 1
MaxSigs == 2

AuthorityLens == {1, 2}
MmrRoots == {"root0", "root1"}

\* BeefyNextAuthoritySet {id, len, root}; the root is what the membership
\* proofs are checked against, and is carried by valid_signers below
AuthoritySets == [id : 0..MaxSetId, len : AuthorityLens]

ClientStates == [latest_beefy_height : 0..MaxBlock,
                 mmr_root_hash : MmrRoots,
                 current_authorities : AuthoritySets,
                 next_authorities : AuthoritySets]

\* MmrUpdateProof: the signed commitment (payload[MMR_ROOT_ID], block_number,
\* validator_set_id, the number of signatures), the number of those signatures
\* that verify and whose signer has a valid membership proof in the authority
\* set in effect, the latest MMR leaf's beefy_next_authority_set, and whether
\* mmr_proof proves the leaf under the commitment's root
MmrUpdateProofs ==
    { u \in [validator_set_id : 0..MaxSetId,
             block_number : 0..MaxBlock,
             mmr_root : MmrRoots,
             signatures : 0..MaxSigs,
             valid_signers : 0..MaxSigs,
             beefy_next_authority_set : AuthoritySets,
             mmr_proof_valid : BOOLEAN] : u.valid_signers <= u.signatures }

\* get_initial_client_state: set ids 0 and 1
InitialClientStates ==
    { cs \in ClientStates : /\ cs.latest_beefy_height = 0
                            /\ cs.mmr_root_hash = "root0"
                            /\ cs.current_authorities.id = 0
                            /\ cs.next_authorities.id = 1 }

\* signer count > 2/3 of len
validate_sigs_against_threshold(set, sigs_len) == 3 * sigs_len > 2 * set.len

\* the error asserted by should_fail_with_invalid_validator_set_id
ErrInvalidAuthoritySetId == "InvalidAuthoritySetId"
ErrUnknownValidatorSetId == "InvalidMmrUpdate"

\* the authority set in effect for a validator_set_id
AuthoritySetFor(trusted, validator_set_id) ==
    IF validator_set_id = trusted.current_authorities.id THEN "current"
    ELSE IF validator_set_id = trusted.current_authorities.id + 1 THEN "next"
    ELSE "none"

\* current_authorities of an accepted update: the old next_authorities
KeepCurrentOnSameSet(trusted, u) ==
    IF AuthoritySetFor(trusted, u.validator_set_id) = "next"
    THEN trusted.next_authorities ELSE trusted.current_authorities
NewCurrentAuthorities(trusted, u) == trusted.next_authorities

\* the ClientState of an accepted update; test_verify_mmr_with_proof asserts
\* its mmr_root_hash, latest_beefy_height and next_authorities
StaleRootKept(trusted, u) ==
    [latest_beefy_height |-> u.block_number,
     mmr_root_hash |-> trusted.mmr_root_hash,
     current_authorities |-> NewCurrentAuthorities(trusted, u),
     next_authorities |-> u.beefy_next_authority_set]
NewClientState(trusted, u) ==
    [latest_beefy_height |-> u.block_number,
     mmr_root_hash |-> u.mmr_root,
     current_authorities |-> NewCurrentAuthorities(trusted, u),
     next_authorities |-> u.beefy_next_authority_set]

BeefyErr(e) == [status |-> "Err", err |-> e]

\* a commitment of a validator set older than the current one
StaleNotReported(trusted, u) == FALSE
IsOutdated(trusted, u) == u.validator_set_id < trusted.current_authorities.id

\* should_fail_with_incomplete_signature_threshold: the number of signatures
\* is tested before the validator_set_id is looked up, against both sets
SetIdLookedUpFirst(trusted, u) ==
    /\ AuthoritySetFor(trusted, u.validator_set_id) # "none"
    /\ ~validate_sigs_against_threshold(trusted.current_authorities, u.signatures)
    /\ ~validate_sigs_against_threshold(trusted.next_authorities, u.signatures)
SignatureCountRejects(trusted, u) ==
    /\ ~validate_sigs_against_threshold(trusted.current_authorities, u.signatures)
    /\ ~validate_sigs_against_threshold(trusted.next_authorities, u.signatures)

verify_mmr_root_with_proof(trusted, u) ==
    LET which == AuthoritySetFor(trusted, u.validator_set_id)
        set == IF which = "next" THEN trusted.next_authorities
               ELSE trusted.current_authorities
    IN
    IF IsOutdated(trusted, u) THEN BeefyErr("OutdatedCommitment")
    ELSE IF SignatureCountRejects(trusted, u)
    THEN BeefyErr("IncompleteSignatureThreshold")
    ELSE IF which = "none" THEN BeefyErr(ErrUnknownValidatorSetId)
    ELSE IF ~validate_sigs_against_threshold(set, u.valid_signers)
    THEN BeefyErr("IncompleteSignatureThreshold")
    ELSE IF ~u.mmr_proof_valid THEN BeefyErr("InvalidMmrProof")
    ELSE [status |-> "Ok", err |-> "none", client_state |-> NewClientState(trusted, u)]

BeefyIdle ==
    /\ beefy_pc = "idle"
    /\ trusted_state = NoValue
    /\ mmr_update = NoValue
    /\ beefy_result = NoValue

\* the test loop skips a commitment of an older validator set
SkipOutdatedCommitment ==
    /\ beefy_pc = "idle"
    /\ \E u \in MmrUpdateProofs :
         /\ u.validator_set_id < client_state.current_authorities.id
         /\ mmr_update' = u
    /\ trusted_state' = client_state
    /\ beefy_result' = [status |-> "Skipped", err |-> "none"]
    /\ beefy_pc' = "skipped"
    /\ UNCHANGED <<client_state, beefy_others>>

\* a caller runs the verifier on its ClientState and keeps the state returned
\* by an accepted update; the state it passed in stays in trusted_state
VerifyMmrRootWithProof ==
    /\ beefy_pc = "idle"
    /\ \E u \in MmrUpdateProofs :
         LET result == verify_mmr_root_with_proof(client_state, u)
         IN /\ mmr_update' = u
            /\ trusted_state' = client_state
            /\ beefy_result' = result
            /\ client_state' = IF result.status = "Ok" THEN result.client_state
                               ELSE client_state
    /\ beefy_pc' = "verified"
    /\ UNCHANGED beefy_others

\* the loop turns to the next commitment
NextCommitment ==
    /\ beefy_pc \in {"skipped", "verified"}
    /\ beefy_pc' = "idle"
    /\ trusted_state' = NoValue
    /\ mmr_update' = NoValue
    /\ beefy_result' = NoValue
    /\ UNCHANGED <<client_state, beefy_others>>

(***************************************************************************)
(* Relay workers (specification, sections 5 and 9): each worker holds the  *)
(* ClientState exclusively for its read-verify-write sequence.  The        *)
(* workers' code is not among the sources.                                 *)
(***************************************************************************)
Workers == {"w1", "w2"}
NoWorker == "free"

\* the updates the workers relay: commitments whose signatures all verify
RelayUpdates ==
    { u \in MmrUpdateProofs : u.signatures = MaxSigs /\ u.valid_signers = MaxSigs }

RelayIdle ==
    /\ relay_lock = NoWorker
    /\ relay_version = 0
    /\ relay_pc = [w \in Workers |-> "idle"]
    /\ relay_snapshot = [w \in Workers |-> NoValue]
    /\ relay_read_version = [w \in Workers |-> 0]
    /\ relay_update = [w \in Workers |-> NoValue]
    /\ relay_result = [w \in Workers |-> NoValue]

\* the single-writer lock is free
LockIgnored(w) == TRUE
MayAcquire(w) == relay_lock = NoWorker

Acquire(w) ==
    /\ relay_pc[w] = "idle"
    /\ MayAcquire(w)
    /\ relay_lock' = w
    /\ relay_pc' = [relay_pc EXCEPT ![w] = "locked"]
    /\ UNCHANGED <<client_state, relay_start, relay_version, relay_snapshot,
                   relay_read_version, relay_update, relay_result, relay_others>>

\* read: the worker's snapshot of the stored ClientState
ReadClientState(w) ==
    /\ relay_pc[w] = "locked"
    /\ relay_snapshot' = [relay_snapshot EXCEPT ![w] = client_state]
    /\ relay_read_version' = [relay_read_version EXCEPT ![w] = relay_version]
    /\ relay_pc' = [relay_pc EXCEPT ![w] = "read"]
    /\ UNCHANGED <<client_state, relay_start, relay_lock, relay_version,
                   relay_update, relay_result, relay_others>>

\* verify: the pure verifier on the snapshot
VerifySnapshot(w) ==
    /\ relay_pc[w] = "read"
    /\ \E u \in RelayUpdates :
         /\ relay_update' = [relay_update EXCEPT ![w] = u]
         /\ relay_result' = [relay_result EXCEPT
                                ![w] = verify_mmr_root_with_proof(relay_snapshot[w], u)]
    /\ relay_pc' = [relay_pc EXCEPT ![w] = "verified"]
    /\ UNCHANGED <<client_state, relay_start, relay_lock, relay_version,
                   relay_snapshot, relay_read_version, relay_others>>

\* write: an accepted update replaces the stored ClientState
WriteClientState(w) ==
    /\ relay_pc[w] = "verified"
    /\ IF relay_result[w].status = "Ok"
       THEN /\ client_state' = relay_result[w].client_state
            /\ relay_version' = relay_version + 1
       ELSE UNCHANGED <<client_state, relay_version>>
    /\ relay_pc' = [relay_pc EXCEPT ![w] = "written"]
    /\ UNCHANGED <<relay_start, relay_lock, relay_snapshot, relay_read_version,
                   relay_update, relay_result, relay_others>>

Release(w) ==
    /\ relay_pc[w] = "written"
    /\ relay_lock' = NoWorker
    /\ relay_pc' = [relay_pc EXCEPT ![w] = "done"]
    /\ UNCHANGED <<client_state, relay_start, relay_version, relay_snapshot,
                   relay_read_version, relay_update, relay_result, relay_others>>

(***************************************************************************)
(* BEEFY: verify_parachain_headers (specification, section 4.5; called by  *)
(* the test verify_parachain_headers of src/tests.rs).                     *)
(***************************************************************************)
\* largest leaf position of the MMR
MaxLeafPos == 2
Positions == 0..MaxLeafPos
ParaLeaves == {"leafA", "leafB"}

\* an MMR root hash stands for the leaves it commits to, position by position
MmrTrees == [Positions -> ParaLeaves]

\* parachain_headers: header leaves, each tagged with its own position
ParachainHeaderBatches == UNION { [S -> ParaLeaves] : S \in SUBSET Positions }

\* mmr_proof: what the batch proof supplies for the rest of the MMR
ParachainsUpdateProofs ==
    [parachain_headers : ParachainHeaderBatches, mmr_proof : MmrTrees]

\* the root recomputed from the listed leaves at their claimed positions and
\* from the proof for every other position
calculate_root(update) ==
    [p \in Positions |-> IF p \in DOMAIN update.parachain_headers
                         THEN update.parachain_headers[p]
                         ELSE update.mmr_proof[p]]

OneLeafSuffices(mmr_root_hash, update) ==
    IF /\ \A p \in Positions \ DOMAIN update.parachain_headers :
             update.mmr_proof[p] = mmr_root_hash[p]
       /\ \/ DOMAIN update.parachain_headers = {}
          \/ \E p \in DOMAIN update.parachain_headers :
                 update.parachain_headers[p] = mmr_root_hash[p]
    THEN [status |-> "Ok", err |-> "none"]
    ELSE BeefyErr("InvalidMmrProof")
verify_parachain_headers(mmr_root_hash, update) ==
    IF calculate_root(update) = mmr_root_hash
    THEN [status |-> "Ok", err |-> "none"]
    ELSE BeefyErr("InvalidMmrProof")

ParaIdle ==
    /\ para_pc = "idle"
    /\ para_mmr_root_hash = NoValue
    /\ para_update = NoValue
    /\ para_result = NoValue

\* verify_parachain_headers(client_state, parachain_update_proof)
CallVerifyParachainHeaders ==
    /\ para_pc = "idle"
    /\ \E mmr_root_hash \in MmrTrees, update \in ParachainsUpdateProofs :
         /\ para_mmr_root_hash' = mmr_root_hash
         /\ para_update' = update
         /\ para_result' = verify_parachain_headers(mmr_root_hash, update)
    /\ para_pc' = "done"
    /\ UNCHANGED para_others

(***************************************************************************)
(* hyperspace packets/utils.rs: verify_delay_passed.  has_delay_elapsed    *)
(* and calculate_block_delay are not among the sources; they follow        *)
(* section 4.6 of the specification.  Heights are those of one revision.   *)
(***************************************************************************)
\* latest timestamp and connection delay (one unit of time), latest height,
\* longest expected block time
MaxDelayTime == 2
MaxDelayHeight == 2
MaxBlockTime == 2

VerifyDelayOn == {"Source", "Sink"}

\* the answer of query_client_update_time_and_height at the proof height
ClientUpdateAnswers ==
    [is_ok : {FALSE}, height : {0}, time : {0}]
        \cup [is_ok : {TRUE}, height : 0..MaxDelayHeight, time : 0..MaxDelayTime]

\* the answer of sink.query_client_consensus: the query fails, or answers
\* without or with a consensus state; the Source branch does not ask
ClientConsensusAnswers == {"Err", "None", "Some"}

\* the arguments of the call and the answers of the chains it asks: the
\* Source branch does not ask for the consensus state, and the Sink branch
\* does not get to the client update query when the consensus state is missing
DelayArgs ==
    { a \in [source_timestamp : 0..MaxDelayTime,
             source_height : 0..MaxDelayHeight,
             sink_timestamp : 0..MaxDelayTime,
             sink_height : 0..MaxDelayHeight,
             source_expected_block_time : 1..MaxBlockTime,
             sink_expected_block_time : 1..MaxBlockTime,
             connection_delay : 0..MaxDelayTime,
             verify_delay_on : VerifyDelayOn,
             client_consensus : ClientConsensusAnswers \cup {"NotQueried"},
             client_update : ClientUpdateAnswers] :
        /\ a.verify_delay_on = "Source" <=> a.client_consensus = "NotQueried"
        /\ a.client_consensus \in {"Err", "None"} => ~a.client_update.is_ok }

\* ceil(delay_period_time / max_expected_time_per_block)
calculate_block_delay(delay_period_time, max_expected_time_per_block) ==
    (delay_period_time + max_expected_time_per_block - 1) \div max_expected_time_per_block

\* both the time delay and the block delay have elapsed
has_delay_elapsed(current_time, current_height, client_update_time, client_update_height, delay_period_time, delay_period_blocks) ==
    /\ current_time - client_update_time >= delay_period_time
    /\ current_height - client_update_height >= delay_period_blocks

DelayOk(b) == [status |-> "Ok", value |-> b]
DelayPanic == [status |-> "Panic", value |-> FALSE]

\* lines 218-221 and 257-260: the client update query failed
FailsOpen == DelayOk(TRUE)
OnUpdateQueryFailure == DelayOk(FALSE)

\* the block delay of the Sink branch: of the sink's expected block time
SinkBlockDelayFromSource(a) ==
    calculate_block_delay(a.connection_delay, a.source_expected_block_time)
SinkBlockDelay(a) ==
    calculate_block_delay(a.connection_delay, a.sink_expected_block_time)

verify_delay_passed(a) ==
    IF a.verify_delay_on = "Source"
    THEN IF a.client_update.is_ok
         THEN LET block_delay == calculate_block_delay(a.connection_delay,
                                                       a.source_expected_block_time)
              IN DelayOk(has_delay_elapsed(a.source_timestamp, a.source_height,
                                           a.client_update.time, a.client_update.height,
                                           a.connection_delay, block_delay))
         ELSE OnUpdateQueryFailure
    ELSE IF a.client_consensus # "Some" THEN DelayPanic
    ELSE IF a.client_update.is_ok
         THEN LET block_delay == SinkBlockDelay(a)
              IN DelayOk(has_delay_elapsed(a.sink_timestamp, a.sink_height,
                                           a.client_update.time, a.client_update.height,
                                           a.connection_delay, block_delay))
         ELSE OnUpdateQueryFailure

DelayIdle ==
    /\ delay_pc = "idle"
    /\ delay_args = NoValue
    /\ delay_result = NoValue

CallVerifyDelayPassed ==
    /\ delay_pc = "idle"
    /\ \E a \in DelayArgs :
         /\ delay_args' = a
         /\ delay_result' = verify_delay_passed(a)
    /\ delay_pc' = "done"
    /\ UNCHANGED delay_others

(***************************************************************************)
(* hyperspace packets/utils.rs: get_timeout_proof_height.  The function    *)
(* ends in find_suitable_proof_height_for_client (primitives), whose       *)
(* arguments are the result kept here.                                     *)
(***************************************************************************)
\* largest revision_height and packet creation height, latest timestamp
MaxProofHeight == 2
MaxProofTime == 2

\* u32 of "as u32", scaled to the model's heights
U32Modulus == 4
AsU32(n) == n % U32Modulus

saturating_sub(a, b) == IF a > b THEN a - b ELSE 0

\* Option<Height>, Option<Timestamp>
NoneOf(default) == [is_some |-> FALSE, value |-> default]
SomeOf(v) == [is_some |-> TRUE, value |-> v]

HeightNew(revision_number, revision_height) ==
    [revision_number |-> revision_number, revision_height |-> revision_height]
ZeroHeight == HeightNew(0, 0)

\* Ord for Height: by revision_number, then by revision_height
HeightCmp(a, b) ==
    IF a.revision_number # b.revision_number
    THEN Cmp(a.revision_number, b.revision_number)
    ELSE Cmp(a.revision_height, b.revision_height)

\* Ord::min
HeightMax(a, b) == IF HeightCmp(a, b) = "Greater" THEN a ELSE b
HeightMin(a, b) == IF HeightCmp(a, b) = "Greater" THEN b ELSE a

\* the answer of Packet::timeout_variant(packet, &sink_timestamp, sink_height)
TimeoutVariants == {"None", "Height", "Timestamp", "Both"}

ProofHeights == [revision_number : RevisionNumbers, revision_height : 0..MaxProofHeight]

TimeoutArgsOf(source_heights, source_timestamps) ==
    [source_height : [revision_number : {0}, revision_height : source_heights],
     source_timestamp : source_timestamps,
     sink_height : ProofHeights,
     sink_timestamp : 0..MaxProofTime,
     timeout_height : ProofHeights,
     timeout_timestamp : 0..MaxProofTime,
     packet_creation_height : 0..MaxProofHeight,
     source_expected_block_time : 1..MaxBlockTime,
     sink_expected_block_time : 1..MaxBlockTime,
     timeout_variant : TimeoutVariants]

\* a source height and timestamp of a packet that has lived for more than
\* u32::MAX blocks of the source chain
LongLivedHeight == U32Modulus + 1
LongLivedTime == U32Modulus + 1

\* the source is either young (height and timestamp within the bounds) or
\* at LongLivedHeight and LongLivedTime
TimeoutArgs ==
    TimeoutArgsOf(0..MaxProofHeight, 0..MaxProofTime)
        \cup TimeoutArgsOf({LongLivedHeight}, {LongLivedTime})

\* the outcome: a panic, an early None, or the arguments start_height,
\* timeout_height and timestamp_to_match of the proof-height search
TimeoutOutcome(status, start_height, height_bound, timestamp_bound, timeout_block_on_b) ==
    [status |-> status, start_height |-> start_height, height_bound |-> height_bound,
     timestamp_bound |-> timestamp_bound, timeout_block_on_b |-> timeout_block_on_b]
TimeoutNoSearch(status) ==
    TimeoutOutcome(status, ZeroHeight, NoneOf(ZeroHeight), NoneOf(0), 0)

\* lines 97-117 and 142-162: the timeout block on the sink
TimeoutBlockOnB(a) ==
    LET packet_lifetime_blocks_on_a ==
            saturating_sub(a.source_height.revision_height, a.packet_creation_height)
        packet_timestamp ==
            a.source_timestamp
                - a.source_expected_block_time * AsU32(packet_lifetime_blocks_on_a)
        timeout_timestamp_relative == saturating_sub(a.timeout_timestamp, packet_timestamp)
        packet_lifetime_timestamp ==
            a.source_expected_block_time * AsU32(packet_lifetime_blocks_on_a)
        packet_lifetime_blocks_on_b ==
            packet_lifetime_timestamp \div a.sink_expected_block_time
        packet_height_on_b ==
            saturating_sub(a.sink_height.revision_height, packet_lifetime_blocks_on_b)
    IN [underflow |-> packet_timestamp < 0,
        block |-> saturating_sub(packet_height_on_b
                     + (timeout_timestamp_relative \div a.sink_expected_block_time), 1)]

\* lines 163-164
BothStartAtLater(estimated, timeout_height) == HeightMax(estimated, timeout_height)
BothStartHeight(estimated, timeout_height) == HeightMin(estimated, timeout_height)

get_timeout_proof_height(a) ==
    LET est == TimeoutBlockOnB(a)
        estimated == HeightNew(a.sink_height.revision_number, est.block)
    IN
    CASE a.timeout_variant = "None" -> TimeoutNoSearch("Panic")
      [] a.timeout_variant = "Height" ->
           TimeoutOutcome("Search", a.timeout_height, SomeOf(a.timeout_height), NoneOf(0), 0)
      [] a.timeout_variant = "Timestamp" ->
           IF a.timeout_timestamp > a.sink_timestamp \/ est.underflow
           THEN TimeoutNoSearch("None")
           ELSE TimeoutOutcome("Search", estimated, NoneOf(ZeroHeight),
                               SomeOf(a.timeout_timestamp), est.block)
      [] a.timeout_variant = "Both" ->
           IF a.timeout_timestamp > a.sink_timestamp \/ est.underflow
           THEN TimeoutNoSearch("None")
           ELSE TimeoutOutcome("Search", BothStartHeight(estimated, a.timeout_height),
                               SomeOf(a.timeout_height), SomeOf(a.timeout_timestamp),
                               est.block)

TimeoutIdle ==
    /\ timeout_pc = "idle"
    /\ timeout_args = NoValue
    /\ timeout_result = NoValue

CallGetTimeoutProofHeight ==
    /\ timeout_pc = "idle"
    /\ \E a \in TimeoutArgs :
         /\ timeout_args' = a
         /\ timeout_result' = get_timeout_proof_height(a)
    /\ timeout_pc' = "done"
    /\ UNCHANGED timeout_others

(***************************************************************************)
(* hyperspace cosmos/utils.rs: collect_signatures_for_finalized_block.     *)
(***************************************************************************)
\* the commit signatures handed to the function.  "zero" is a signature that
\* verifies under the signer's key over the message [0u8] (and not over the
\* vote's sign bytes); "good" verifies over the vote's sign bytes only.  The
\* function reads nothing of an entry that is not a BlockIdFlagCommit: one
\* BlockIdFlagNil and the absent entry are drawn.
CollectCommitSigs ==
    [flag : {"BlockIdFlagAbsent"}, validator_address : {NoValue}, signature : {"none"}]
    \cup [flag : {"BlockIdFlagNil"}, validator_address : {"a"}, signature : {"good"}]
    \cup [flag : {"BlockIdFlagCommit"},
          validator_address : Addresses \ {"c"},
          signature : {"none", "good", "zero"}]
    \cup [flag : {"BlockIdFlagCommit"}, validator_address : {"c"}, signature : {"none", "zero"}]

CollectHeaders ==
    [validator_set : {vs \in ValidatorSets : \A i \in 1..Len(vs) : vs[i].key_type = "Ed25519"},
     signatures : SeqsUpTo(CollectCommitSigs, MaxCommitLen)]

\* lines 30-32: the entries with BlockIdFlagCommit
RECURSIVE FilterCommit(_)
FilterCommit(signatures) ==
    IF signatures = <<>> THEN <<>>
    ELSE IF Head(signatures).flag = "BlockIdFlagCommit"
         THEN <<Head(signatures)>> \o FilterCommit(Tail(signatures))
         ELSE FilterCommit(Tail(signatures))

\* lines 33-49: (pub_key, signature, commit, power) of the signers found in
\* the validator set
RECURSIVE ValidatorInfoSignedBlock(_, _)
ValidatorInfoSignedBlock(validator_set, commits) ==
    IF commits = <<>> THEN <<>>
    ELSE
      LET commit == Head(commits)
          rest == ValidatorInfoSignedBlock(validator_set, Tail(commits))
      IN IF ~HasValidator(validator_set, commit.validator_address) THEN rest
         ELSE LET info == validator(validator_set, commit.validator_address)
              IN <<[pub_key |-> PubKeyBytes(info), signature |-> commit.signature,
                    voting_power |-> info.power]>> \o rest

\* lines 51-53: sort_by on the voting power, descending
KeptInCommitOrder(entries) == entries
SortedByPower(entries) == SortDesc(entries)

\* line 47: unreachable!() is reached by a BlockIdFlagCommit without signature
ReachesUnreachable(commits) ==
    \E i \in 1..Len(commits) : commits[i].signature = "none"

\* line 65: Verifier::verify(pubkey, [0u8], &signature).is_ok()
VerifiesOverZeroByte(entry) == entry.signature = "zero"

\* lines 58 and 74: consensus and the circuit size
QuorumOnly(voting_power, len, total, circuit_size) == voting_power * 3 > 2 * total
QuorumAndCircuitSize(voting_power, len, total, circuit_size) ==
    voting_power * 3 > 2 * total /\ len = circuit_size

\* lines 55-72: the fold, acc = (voting power, list)
RECURSIVE CollectFold(_, _, _, _)
CollectFold(entries, acc, total, circuit_size) ==
    IF entries = <<>> THEN acc
    ELSE
      LET entry == Head(entries)
          next == IF QuorumAndCircuitSize(acc.power, Len(acc.list), total, circuit_size)
                  THEN acc
                  ELSE IF VerifiesOverZeroByte(entry)
                       THEN [power |-> acc.power + entry.voting_power,
                             list |-> Append(acc.list,
                                             [pub_key |-> entry.pub_key,
                                              signature |-> entry.signature,
                                              msg |-> <<0>>])]
                       ELSE acc
      IN CollectFold(Tail(entries), next, total, circuit_size)

\* the returned Option; collected and power are the fold's list and tally
collect_signatures_for_finalized_block(header, circuit_size) ==
    LET total == total_voting_power(header.validator_set)
        commits == FilterCommit(header.signatures)
    IN
    IF ReachesUnreachable(commits)
    THEN [status |-> "Panic", list |-> <<>>, collected |-> <<>>, power |-> 0]
    ELSE
      LET validator_info_signed_block ==
              SortedByPower(ValidatorInfoSignedBlock(header.validator_set, commits))
          result == CollectFold(validator_info_signed_block,
                                [power |-> 0, list |-> <<>>], total, circuit_size)
      IN IF QuorumAndCircuitSize(result.power, Len(result.list), total, circuit_size)
         THEN [status |-> "Some", list |-> result.list,
               collected |-> result.list, power |-> result.power]
         ELSE [status |-> "None", list |-> <<>>,
               collected |-> result.list, power |-> result.power]

CsIdle ==
    /\ cs_pc = "idle"
    /\ cs_header = NoValue
    /\ cs_circuit_size = 0
    /\ cs_result = NoValue

CallCollectSignatures ==
    /\ cs_pc = "idle"
    /\ \E header \in CollectHeaders, circuit_size \in 0..MaxCommitLen :
         /\ cs_header' = header
         /\ cs_circuit_size' = circuit_size
         /\ cs_result' = collect_signatures_for_finalized_block(header, circuit_size)
    /\ cs_pc' = "done"
    /\ UNCHANGED cs_others

(***************************************************************************)
(* ClientMessage, Misbehaviour and their protobuf forms: TryFrom<Any>,     *)
(* From<ClientMessage> for Any, TryFrom<RawMisbehaviour> and               *)
(* From<Misbehaviour> for RawMisbehaviour.  The bytes of an Any are        *)
(* modelled by the raw message they are the wire form of, or as malformed. *)
(***************************************************************************)
TENDERMINT_HEADER_TYPE_URL == "/ibc.lightclients.tendermint.v1.Header"
TENDERMINT_MISBEHAVIOUR_TYPE_URL == "/ibc.lightclients.tendermint.v1.Misbehaviour"
TENDERMINT_CLIENT_MESSAGE_TYPE_URL == "/ibc.lightclients.tendermint.v1.ClientMessage"
TypeUrls == {TENDERMINT_HEADER_TYPE_URL, TENDERMINT_MISBEHAVIOUR_TYPE_URL,
             TENDERMINT_CLIENT_MESSAGE_TYPE_URL}

\* ClientId::default() and one other client id
DefaultClientId == "default"
ClientIds == {DefaultClientId, "07-tendermint-7"}

\* the raw headers a raw misbehaviour is drawn with: revision 0, trusted
\* height 0, every field either absent or convertible
MisbehaviourRawHeaders ==
    {raw \in RawHeaders :
        /\ raw.signed_header.field # "invalid"
        /\ raw.signed_header.height.revision_number = 0
        /\ raw.validator_set = "valid"
        /\ raw.trusted_height.height = [revision_number |-> 0, revision_height |-> 0]
        /\ raw.trusted_validators # "invalid"}

\* Option<RawHeader>
OptionalRawHeaders ==
    [is_some : {TRUE}, raw : MisbehaviourRawHeaders]
    \cup [is_some : {FALSE}, raw : {CHOOSE raw \in MisbehaviourRawHeaders : TRUE}]

RawMisbehaviours == [client_id : ClientIds,
                     header_1 : OptionalRawHeaders,
                     header_2 : OptionalRawHeaders]

\* the Headers that a conversion from a raw header yields
HeadersOf(raws) ==
    {HeaderTryFrom(raw).header : raw \in {r \in raws : HeaderTryFrom(r).status = "Ok"}}

Misbehaviours == [client_id : ClientIds,
                  header1 : HeadersOf(MisbehaviourRawHeaders),
                  header2 : HeadersOf(MisbehaviourRawHeaders)]

ClientMessages ==
    [kind : {"Header"}, header : HeadersOf(RawHeaders)]
    \cup [kind : {"Misbehaviour"}, misbehaviour : Misbehaviours]

\* From<Header> for RawHeader
RawHeaderFrom(value) ==
    [signed_header |-> [field |-> "valid", height |-> value.height],
     validator_set |-> value.validator_set,
     trusted_height |-> [field |-> "valid", height |-> value.trusted_height],
     trusted_validators |-> value.trusted_validator_set]

\* From<Misbehaviour> for RawMisbehaviour
RawMisbehaviourFrom(value) ==
    [client_id |-> value.client_id,
     header_1 |-> [is_some |-> TRUE, raw |-> RawHeaderFrom(value.header1)],
     header_2 |-> [is_some |-> TRUE, raw |-> RawHeaderFrom(value.header2)]]

\* the client id of a converted Misbehaviour
ClientIdKept(raw) == raw.client_id
ConvertedClientId(raw) == DefaultClientId

\* raw.header_2.ok_or_else(missing header2)?.try_into()?
ConvertHeader2(raw) ==
    IF ~raw.header_2.is_some
    THEN [status |-> "Err", err |-> "invalid_raw_misbehaviour"]
    ELSE HeaderTryFrom(raw.header_2.raw)

\* TryFrom<RawMisbehaviour> for Misbehaviour
MisbehaviourTryFrom(raw) ==
    IF ~raw.header_1.is_some
    THEN [status |-> "Err", err |-> "invalid_raw_misbehaviour"]
    ELSE IF HeaderTryFrom(raw.header_1.raw).status = "Err"
    THEN HeaderTryFrom(raw.header_1.raw)
    ELSE IF ConvertHeader2(raw).status = "Err"
    THEN ConvertHeader2(raw)
    ELSE [status |-> "Ok", err |-> "none",
          misbehaviour |-> [client_id |-> ConvertedClientId(raw),
                            header1 |-> HeaderTryFrom(raw.header_1.raw).header,
                            header2 |-> ConvertHeader2(raw).header]]

\* google.protobuf.Any: value holds the wire form of a raw message
WellFormed(message) == [malformed |-> FALSE, message |-> message]
Anys ==
    [type_url : {TENDERMINT_HEADER_TYPE_URL},
     value : {WellFormed(raw) : raw \in RawHeaders}]
    \cup [type_url : {TENDERMINT_MISBEHAVIOUR_TYPE_URL},
          value : {WellFormed(raw) : raw \in RawMisbehaviours}]
    \cup [type_url : {TENDERMINT_CLIENT_MESSAGE_TYPE_URL},
          value : {WellFormed(raw) : raw \in MisbehaviourRawHeaders}]
    \cup [type_url : TypeUrls, value : {[malformed |-> TRUE, message |-> "garbage"]}]

ValidationErr == [status |-> "Err", err |-> "validation"]

\* the match arm of an unrecognised any.type_url
UnknownTypeAccepted(any) == [status |-> "Ok", err |-> "none", msg |-> [kind |-> "Unknown"]]
UnknownType(any) == ValidationErr

\* TryFrom<Any> for ClientMessage; decode is prost's decoding of the bytes
\* followed by the conversion from the raw message
ClientMessageTryFrom(any) ==
    IF any.type_url = TENDERMINT_HEADER_TYPE_URL
    THEN IF any.value.malformed \/ HeaderTryFrom(any.value.message).status = "Err"
         THEN ValidationErr
         ELSE [status |-> "Ok", err |-> "none",
               msg |-> [kind |-> "Header",
                        header |-> HeaderTryFrom(any.value.message).header]]
    ELSE IF any.type_url = TENDERMINT_MISBEHAVIOUR_TYPE_URL
    THEN IF any.value.malformed \/ MisbehaviourTryFrom(any.value.message).status = "Err"
         THEN ValidationErr
         ELSE [status |-> "Ok", err |-> "none",
               msg |-> [kind |-> "Misbehaviour",
                        misbehaviour |->
                            MisbehaviourTryFrom(any.value.message).misbehaviour]]
    ELSE UnknownType(any)

\* From<ClientMessage> for Any
AnyFrom(msg) ==
    IF msg.kind = "Header"
    THEN [type_url |-> TENDERMINT_HEADER_TYPE_URL,
          value |-> WellFormed(RawHeaderFrom(msg.header))]
    ELSE [type_url |-> TENDERMINT_MISBEHAVIOUR_TYPE_URL,
          value |-> WellFormed(RawMisbehaviourFrom(msg.misbehaviour))]

CmIdle ==
    /\ cm_pc = "idle"
    /\ cm_msg = NoValue
    /\ cm_any = NoValue
    /\ cm_raw = NoValue
    /\ cm_result = NoValue

\* Misbehaviour::try_from(raw)
CallMisbehaviourTryFrom ==
    /\ cm_pc = "idle"
    /\ \E raw \in RawMisbehaviours :
         /\ cm_raw' = raw
         /\ cm_result' = MisbehaviourTryFrom(raw)
    /\ cm_pc' = "converted"
    /\ UNCHANGED <<cm_msg, cm_any, cm_others>>

\* Any::from(msg)
CallAnyFrom ==
    /\ cm_pc = "idle"
    /\ \E msg \in ClientMessages :
         /\ cm_msg' = msg
         /\ cm_any' = AnyFrom(msg)
    /\ cm_pc' = "encoded"
    /\ UNCHANGED <<cm_raw, cm_result, cm_others>>

\* ClientMessage::try_from(any), of an Any received from outside
CallClientMessageTryFrom ==
    /\ cm_pc = "idle"
    /\ \E any \in Anys :
         /\ cm_any' = any
         /\ cm_result' = ClientMessageTryFrom(any)
    /\ cm_pc' = "decoded"
    /\ UNCHANGED <<cm_msg, cm_raw, cm_others>>

\* ClientMessage::try_from(any), of the Any that Any::from produced
DecodeEncoded ==
    /\ cm_pc = "encoded"
    /\ cm_result' = ClientMessageTryFrom(cm_any)
    /\ cm_pc' = "round_trip"
    /\ UNCHANGED <<cm_msg, cm_any, cm_raw, cm_others>>

(***************************************************************************)
(* Specifications: one per routine; the other routines stay idle.          *)
(***************************************************************************)
GenesisClientState ==
    [latest_beefy_height |-> 0, mmr_root_hash |-> "root0",
     current_authorities |-> [id |-> 0, len |-> 2],
     next_authorities |-> [id |-> 1, len |-> 2]]

TmInit ==
    /\ ZkIdle /\ HcIdle /\ RhIdle /\ BeefyIdle
    /\ RelayIdle /\ relay_start = NoValue
    /\ ParaIdle /\ DelayIdle /\ TimeoutIdle /\ CsIdle /\ CmIdle
    /\ client_state = GenesisClientState

\* Header::get_zk_input
Init == TmInit
Next == CallGetZkInput
Spec == Init /\ [][Next]_vars

\* headers_compatible
CompatNext == CallCompatibleWith
SpecCompat == TmInit /\ [][CompatNext]_vars

\* TryFrom<RawHeader> for Header
RawHeaderNext == CallHeaderTryFrom
SpecRawHeader == TmInit /\ [][RawHeaderNext]_vars

\* the BEEFY client
BeefyInit ==
    /\ ZkIdle /\ HcIdle /\ RhIdle /\ BeefyIdle
    /\ RelayIdle /\ relay_start = NoValue
    /\ ParaIdle /\ DelayIdle /\ TimeoutIdle /\ CsIdle /\ CmIdle
    /\ client_state \in InitialClientStates
BeefyNext == SkipOutdatedCommitment \/ VerifyMmrRootWithProof \/ NextCommitment
SpecBeefy == BeefyInit /\ [][BeefyNext]_vars

\* two relay workers on one stored ClientState
RelayInit ==
    /\ ZkIdle /\ HcIdle /\ RhIdle /\ BeefyIdle
    /\ RelayIdle
    /\ ParaIdle /\ DelayIdle /\ TimeoutIdle /\ CsIdle /\ CmIdle
    /\ client_state \in InitialClientStates
    /\ relay_start = client_state
RelayNext ==
    \E w \in Workers :
        \/ Acquire(w)
        \/ ReadClientState(w)
        \/ VerifySnapshot(w)
        \/ WriteClientState(w)
        \/ Release(w)
SpecRelay == RelayInit /\ [][RelayNext]_vars

\* verify_parachain_headers
ParachainNext == CallVerifyParachainHeaders
SpecParachain == TmInit /\ [][ParachainNext]_vars

\* verify_delay_passed
DelayNext == CallVerifyDelayPassed
SpecDelay == TmInit /\ [][DelayNext]_vars

\* get_timeout_proof_height
TimeoutNext == CallGetTimeoutProofHeight
SpecTimeout == TmInit /\ [][TimeoutNext]_vars

\* collect_signatures_for_finalized_block
CollectNext == CallCollectSignatures
SpecCollect == TmInit /\ [][CollectNext]_vars

\* the ClientMessage and Misbehaviour conversions
CodecNext ==
    \/ CallMisbehaviourTryFrom
    \/ CallAnyFrom
    \/ CallClientMessageTryFrom
    \/ DecodeEncoded
SpecCodec == TmInit /\ [][CodecNext]_vars

(***************************************************************************)
(* Properties of Header::get_zk_input (Spec).                              *)
(***************************************************************************)
ZkDone == zk_pc = "done"

\* the call got as far as the voting-power test
ZkTallied ==
    /\ ZkDone
    /\ zk_result.err \in {"none", "voting power is not > 2/3 + 1"}

\* every vote taken after the sort carries a signature that verifies
ZkSelectedAllVerify ==
    \A k \in 1..Len(zk_result.selected) : zk_result.selected[k].signature = "good"

\* C1: get_zk_input succeeds exactly when the summed voting power of the
\* selected votes is strictly greater than 2/3 of the total voting power:
\* exactly 2/3 is rejected and 2/3 plus one unit is accepted.  (Stated for
\* calls whose selected votes all carry verifying signatures.)
C1_StrictTwoThirdsDecides ==
    (ZkTallied /\ ZkSelectedAllVerify) =>
        ( zk_result.status = "Ok"
          <=> zk_result.tally * 3 > total_voting_power(zk_header.validator_set) * 2 )

NonAbsentIdx(signatures) ==
    { i \in 1..Len(signatures) : signatures[i].flag # "BlockIdFlagAbsent" }

\* signature j is non-absent and carries the address of an earlier non-absent one
DuplicateAt(signatures, j) ==
    /\ j \in NonAbsentIdx(signatures)
    /\ \E i \in NonAbsentIdx(signatures) :
         i < j /\ signatures[i].validator_address = signatures[j].validator_address

HasDuplicateSigner(signatures) == \E j \in 1..Len(signatures) : DuplicateAt(signatures, j)

FirstDuplicate(signatures) ==
    CHOOSE j \in 1..Len(signatures) :
        /\ DuplicateAt(signatures, j)
        /\ \A k \in 1..(j - 1) : ~DuplicateAt(signatures, k)

\* a vote of a known validator before position j carries no signature
UnsignedVoteBefore(header, j) ==
    \E i \in NonAbsentIdx(header.signatures) :
        /\ i < j
        /\ HasValidator(header.validator_set, header.signatures[i].validator_address)
        /\ header.signatures[i].signature = "none"

\* C2: when two non-absent commit signatures carry the same validator
\* address, get_zk_input returns a validation error and never Ok: the error
\* is "validator seen twice", raised at the second of the two, unless a vote
\* before it already failed to convert (which is a validation error too).
C2_DuplicateVoteIsError ==
    (ZkDone /\ HasDuplicateSigner(zk_header.signatures)) =>
        /\ zk_result.status = "Err"
        /\ zk_result.err =
             IF UnsignedVoteBefore(zk_header, FirstDuplicate(zk_header.signatures))
             THEN "signed vote cannot be converted"
             ELSE "validator seen twice"

\* two commit-flagged, verifying signatures of the same known validator, and
\* the call fails on the duplicate
C2_Witness ==
    /\ ZkDone
    /\ Len(zk_header.signatures) = 2
    /\ \A i \in {1, 2} : /\ zk_header.signatures[i].flag = "BlockIdFlagCommit"
                         /\ zk_header.signatures[i].validator_address = "a"
                         /\ zk_header.signatures[i].signature = "good"
    /\ zk_size = 1
    /\ zk_result.status = "Err"
    /\ zk_result.err = "validator seen twice"

\* C3: every vote counted toward the voting-power threshold has a signature
\* that verified against the signer's public key; a signer whose signature
\* fails verification adds no voting power to the tally.
C3_OnlyVerifiedVotesCounted ==
    ZkDone => ZkSelectedAllVerify

\* the commit's eligible votes: non-absent, flagged as commit, and of a
\* validator of the set
EligibleIdx ==
    { i \in 1..Len(zk_header.signatures) :
        /\ zk_header.signatures[i].flag = "BlockIdFlagCommit"
        /\ HasValidator(zk_header.validator_set, zk_header.signatures[i].validator_address) }

\* the commit index of the vote an entry was made of, and the entry's power
VoteIdx(entry) == entry.message[2]
PowerOfVote(i) ==
    validator(zk_header.validator_set, zk_header.signatures[i].validator_address).power

\* the commit indices of the returned entries
ReturnedIdx == { zk_result.ret[k][3][2] : k \in 1..Len(zk_result.ret) }

BitSet(mask, index) == (mask \div (2 ^ index)) % 2 = 1

\* C27: on success, bit i of the bitmask is set exactly when the i-th
\* eligible vote, in commit order, is one of the returned entries; the
\* bitmask therefore has exactly size bits set, whatever the validators'
\* key types.
C27_BitmaskMarksReturned ==
    (ZkDone /\ zk_result.status = "Ok") =>
        /\ \A i \in 1..Len(zk_result.pre_input) :
              BitSet(zk_result.bitmask, i - 1)
                  <=> VoteIdx(zk_result.pre_input[i]) \in ReturnedIdx
        /\ Cardinality({ i \in 1..Len(zk_result.pre_input) :
                            BitSet(zk_result.bitmask, i - 1) }) = zk_size

(***************************************************************************)
(* Properties of headers_compatible (SpecCompat).                          *)
(***************************************************************************)
\* C4: headers_compatible(h, other) is true exactly when the heights are
\* equal and the block ids are equal, or h is higher and strictly later, or
\* h is lower and strictly earlier.
C4_HeadersCompatibleCases ==
    hc_pc = "done" =>
        ( hc_result
          <=> \/ hc_header.height = hc_other.height /\ hc_header.block_id = hc_other.block_id
              \/ hc_header.height > hc_other.height /\ hc_header.time > hc_other.time
              \/ hc_header.height < hc_other.height /\ hc_header.time < hc_other.time )

\* two headers at different heights with equal timestamps are incompatible
C4_Witness ==
    /\ hc_pc = "done"
    /\ hc_header.height > hc_other.height
    /\ hc_header.time = hc_other.time
    /\ hc_result = FALSE

\* C29: headers_compatible is symmetric and reflexive: the answer for
\* (a, b) is the answer for (b, a), and a header is compatible with itself.
C29_SymmetricAndReflexive ==
    hc_pc = "done" =>
        /\ hc_result = headers_compatible(hc_other, hc_header)
        /\ hc_header = hc_other => hc_result

\* a lower and earlier header against a higher and later one: compatible,
\* through the Less arm one way and the Greater arm the other way
C29_Witness ==
    /\ hc_pc = "done"
    /\ hc_header.height < hc_other.height
    /\ hc_header.time < hc_other.time
    /\ hc_result
    /\ headers_compatible(hc_other, hc_header)

(***************************************************************************)
(* Properties of TryFrom<RawHeader> for Header (SpecRawHeader).            *)
(***************************************************************************)
\* ibc Height orders by revision number, then by revision height
HeightGt(a, b) ==
    \/ a.revision_number > b.revision_number
    \/ a.revision_number = b.revision_number /\ a.revision_height > b.revision_height

\* C5: no Header whose trusted_height is greater than the height of its
\* signed_header is accepted by the construction from a RawHeader.
C5_TrustedHeightNotAboveHeader ==
    (rh_pc = "done" /\ rh_result.status = "Ok") =>
        ~HeightGt(rh_result.header.trusted_height, rh_result.header.height)

(***************************************************************************)
(* Properties of the BEEFY client (SpecBeefy).                             *)
(***************************************************************************)
Verified == beefy_pc = "verified"
Accepted == Verified /\ beefy_result.status = "Ok"

\* C6: after an accepted verify_mmr_root_with_proof call the ClientState
\* has the commitment's MMR root, its block number as latest height and the
\* leaf's beefy_next_authority_set as next_authorities.
C6_AcceptedUpdateFields ==
    Accepted =>
        /\ client_state = beefy_result.client_state
        /\ client_state.mmr_root_hash = mmr_update.mmr_root
        /\ client_state.latest_beefy_height = mmr_update.block_number
        /\ client_state.next_authorities = mmr_update.beefy_next_authority_set

\* an accepted update that changes the root, the height and the next set
C6_Witness ==
    /\ Accepted
    /\ client_state.mmr_root_hash # trusted_state.mmr_root_hash
    /\ client_state.latest_beefy_height # trusted_state.latest_beefy_height
    /\ client_state.next_authorities # trusted_state.next_authorities

\* C7: every accepted update rotates the authority sets forward one epoch:
\* the new current_authorities is the old next_authorities and the new
\* next_authorities is the leaf's, also when the commitment's
\* validator_set_id is the old current_authorities.id.
C7_AcceptedUpdateRotates ==
    Accepted =>
        /\ client_state.current_authorities = trusted_state.next_authorities
        /\ client_state.next_authorities = mmr_update.beefy_next_authority_set

\* genesis ids 0 and 1, an accepted update of set 0 whose leaf names set 2
C7_Witness ==
    /\ Accepted
    /\ trusted_state.current_authorities.id = 0
    /\ trusted_state.next_authorities.id = 1
    /\ mmr_update.validator_set_id = 0
    /\ mmr_update.beefy_next_authority_set.id = 2
    /\ client_state.current_authorities.id = 1
    /\ client_state.next_authorities.id = 2

\* C8: an update whose validator_set_id is less than current_authorities.id
\* is rejected by the verifier with OutdatedCommitment and the ClientState
\* is not advanced.
C8_OutdatedRejected ==
    (Verified /\ mmr_update.validator_set_id < trusted_state.current_authorities.id) =>
        /\ beefy_result.status = "Err"
        /\ beefy_result.err = "OutdatedCommitment"
        /\ client_state = trusted_state

\* a stale update with enough valid signatures and a valid MMR proof, handed
\* to the verifier
C8_Witness ==
    /\ Verified
    /\ mmr_update.validator_set_id < trusted_state.current_authorities.id
    /\ mmr_update.valid_signers = MaxSigs
    /\ mmr_update.mmr_proof_valid
    /\ beefy_result.err = "OutdatedCommitment"

\* the update is for neither the current set nor the one after it, and is not stale
UnreachableSetId ==
    /\ mmr_update.validator_set_id > trusted_state.current_authorities.id
    /\ mmr_update.validator_set_id # trusted_state.current_authorities.id + 1

\* an accepted update was checked against the set its validator_set_id names
SelectsCurrentOrNext ==
    Accepted =>
        \/ /\ mmr_update.validator_set_id = trusted_state.current_authorities.id
           /\ validate_sigs_against_threshold(trusted_state.current_authorities,
                                              mmr_update.valid_signers)
        \/ /\ mmr_update.validator_set_id = trusted_state.current_authorities.id + 1
           /\ validate_sigs_against_threshold(trusted_state.next_authorities,
                                              mmr_update.valid_signers)

\* the number of signatures passes the threshold of the current or the next set
PassesSignatureThreshold ==
    \/ validate_sigs_against_threshold(trusted_state.current_authorities,
                                       mmr_update.signatures)
    \/ validate_sigs_against_threshold(trusted_state.next_authorities,
                                       mmr_update.signatures)

MatchesNeitherSetId ==
    /\ mmr_update.validator_set_id # trusted_state.current_authorities.id
    /\ mmr_update.validator_set_id # trusted_state.next_authorities.id

\* C10 as stated: when the number of signatures passes the threshold and the
\* validator_set_id matches neither current_authorities.id nor
\* next_authorities.id, the verifier returns Err(InvalidMmrUpdate).
C10_UnknownSetIdIsInvalidMmrUpdate ==
    (Verified /\ PassesSignatureThreshold /\ MatchesNeitherSetId) =>
        /\ beefy_result.status = "Err"
        /\ beefy_result.err = "InvalidMmrUpdate"

\* C10 amended: when the number of signatures passes the threshold and the
\* validator_set_id is greater than current_authorities.id + 1 and is not
\* next_authorities.id, the verifier returns Err(InvalidMmrUpdate).
C10_SetIdAheadIsInvalidMmrUpdate ==
    (Verified /\ PassesSignatureThreshold /\ MatchesNeitherSetId
              /\ mmr_update.validator_set_id > trusted_state.current_authorities.id + 1) =>
        /\ beefy_result.status = "Err"
        /\ beefy_result.err = "InvalidMmrUpdate"

\* the test's case scaled to the model: the initial client state (ids 0 and
\* 1), the largest set id, every signature slot filled with a signature that
\* does not verify
C10_Witness ==
    /\ Verified
    /\ trusted_state \in InitialClientStates
    /\ mmr_update.validator_set_id = MaxSetId
    /\ mmr_update.signatures = MaxSigs
    /\ mmr_update.valid_signers = 0
    /\ ~mmr_update.mmr_proof_valid
    /\ beefy_result.err = "InvalidMmrUpdate"

\* C11 as stated: whenever the number of signatures of the signed commitment is
\* not greater than 2/3 of the authority set length, the verifier returns
\* Err(IncompleteSignatureThreshold), whatever the validator_set_id.
C11_TooFewSignaturesIsIncompleteThreshold ==
    (Verified /\ ~PassesSignatureThreshold) =>
        /\ beefy_result.status = "Err"
        /\ beefy_result.err = "IncompleteSignatureThreshold"

\* C11 amended: whenever the commitment is not stale and the number of its
\* signatures is not greater than 2/3 of the authority set length, the verifier
\* returns Err(IncompleteSignatureThreshold); the test comes before the
\* validator_set_id is looked up, so an id that matches no known set is
\* reported as IncompleteSignatureThreshold too.
C11_ThresholdBeforeSetIdCheck ==
    (Verified /\ ~PassesSignatureThreshold
              /\ mmr_update.validator_set_id >= trusted_state.current_authorities.id) =>
        /\ beefy_result.status = "Err"
        /\ beefy_result.err = "IncompleteSignatureThreshold"

\* too few signatures under a validator_set_id that matches no known set
C11_Witness ==
    /\ Verified
    /\ ~PassesSignatureThreshold
    /\ UnreachableSetId
    /\ MatchesNeitherSetId
    /\ beefy_result.err = "IncompleteSignatureThreshold"

\* C12: in every ClientState reachable from a genesis state with
\* current_authorities.id <= next_authorities.id, by accepted and rejected
\* verification calls, current_authorities.id <= next_authorities.id.
C12_CurrentIdNotAboveNextId ==
    client_state.current_authorities.id <= client_state.next_authorities.id

\* C13: the stored ClientState is never rolled back: no verification call
\* decreases latest_beefy_height or current_authorities.id.
C13_NeverRolledBack ==
    Verified =>
        /\ client_state.latest_beefy_height >= trusted_state.latest_beefy_height
        /\ client_state.current_authorities.id >= trusted_state.current_authorities.id

\* C14: a rejected call leaves every field of the ClientState as it was, and
\* an accepted call replaces all four fields together: after a call the state
\* is the old one or the complete new one, never a mixture.
C14_RejectedUnchangedAcceptedWhole ==
    Verified =>
        /\ beefy_result.status \in {"Ok", "Err"}
        /\ beefy_result.status = "Err" => client_state = trusted_state
        /\ beefy_result.status = "Ok" =>
              /\ client_state.latest_beefy_height = mmr_update.block_number
              /\ client_state.mmr_root_hash = mmr_update.mmr_root
              /\ client_state.current_authorities = trusted_state.next_authorities
              /\ client_state.next_authorities = mmr_update.beefy_next_authority_set

\* an update that differs from the state in every field and fails only the
\* last check, the MMR proof
C14_Witness ==
    /\ Verified
    /\ beefy_result.err = "InvalidMmrProof"
    /\ mmr_update.block_number # trusted_state.latest_beefy_height
    /\ mmr_update.mmr_root # trusted_state.mmr_root_hash
    /\ mmr_update.beefy_next_authority_set # trusted_state.next_authorities
    /\ trusted_state.next_authorities # trusted_state.current_authorities
    /\ client_state = trusted_state

\* the stored ClientState after an update is offered to the verifier
RelayApply(state, u) ==
    LET result == verify_mmr_root_with_proof(state, u)
    IN IF result.status = "Ok" THEN result.client_state ELSE state

\* the workers' results and the stored state are those of running first, then second
SerialOrder(first, second) ==
    LET middle == RelayApply(relay_start, relay_update[first])
    IN /\ relay_result[first] = verify_mmr_root_with_proof(relay_start, relay_update[first])
       /\ relay_result[second] = verify_mmr_root_with_proof(middle, relay_update[second])
       /\ client_state = RelayApply(middle, relay_update[second])

\* C15: two workers running read-verify-write on one ClientState lose no
\* update: a worker that has read and not yet written holds the state that is
\* stored (nobody has replaced it), and when both are done the stored state
\* and both results are those of some serial order of the two calls.
C15_NoLostUpdate ==
    /\ \A w \in Workers :
          relay_pc[w] \in {"read", "verified"} =>
              /\ relay_read_version[w] = relay_version
              /\ relay_snapshot[w] = client_state
    /\ (\A w \in Workers : relay_pc[w] = "done") =>
          SerialOrder("w1", "w2") \/ SerialOrder("w2", "w1")

\* both workers had their update accepted, and the stored state is that of
\* neither update alone
C15_Witness ==
    /\ \A w \in Workers : relay_pc[w] = "done" /\ relay_result[w].status = "Ok"
    /\ relay_version = 2
    /\ \A w \in Workers : client_state # RelayApply(relay_start, relay_update[w])

(***************************************************************************)
(* Properties of verify_parachain_headers (SpecParachain).                 *)
(***************************************************************************)
ParaDone == para_pc = "done"

\* the listed leaves that are not the leaf of the MMR at their position
WrongLeaves ==
    { p \in DOMAIN para_update.parachain_headers :
        para_update.parachain_headers[p] # para_mmr_root_hash[p] }

\* C16: a batch is accepted only if every listed leaf is the leaf at its
\* claimed position under mmr_root_hash; a batch with a leaf that is not
\* fails as a whole with InvalidMmrProof.
C16_BatchAllOrNothing ==
    ParaDone =>
        /\ para_result.status = "Ok" => WrongLeaves = {}
        /\ WrongLeaves # {} =>
              /\ para_result.status = "Err"
              /\ para_result.err = "InvalidMmrProof"

\* a batch of several leaves, valid but for one changed leaf
C16_Witness ==
    /\ ParaDone
    /\ Cardinality(DOMAIN para_update.parachain_headers) >= 2
    /\ Cardinality(WrongLeaves) = 1
    /\ \A p \in Positions \ DOMAIN para_update.parachain_headers :
          para_update.mmr_proof[p] = para_mmr_root_hash[p]
    /\ para_result.err = "InvalidMmrProof"

(***************************************************************************)
(* Properties of verify_delay_passed (SpecDelay).                          *)
(***************************************************************************)
DelayDone == delay_pc = "done"

\* the call reached has_delay_elapsed
GateReached ==
    /\ delay_args.client_update.is_ok
    /\ delay_args.verify_delay_on = "Sink" => delay_args.client_consensus = "Some"

\* timestamp, height and expected block time of the chain the delay is verified on
DelayNow ==
    IF delay_args.verify_delay_on = "Source"
    THEN [timestamp |-> delay_args.source_timestamp, height |-> delay_args.source_height,
          expected_block_time |-> delay_args.source_expected_block_time]
    ELSE [timestamp |-> delay_args.sink_timestamp, height |-> delay_args.sink_height,
          expected_block_time |-> delay_args.sink_expected_block_time]

TimeDelayElapsed ==
    DelayNow.timestamp - delay_args.client_update.time >= delay_args.connection_delay

\* the least number of blocks whose expected time covers connection_delay
CeilBlocks ==
    CHOOSE n \in 0..delay_args.connection_delay :
        /\ n * DelayNow.expected_block_time >= delay_args.connection_delay
        /\ \A m \in 0..(n - 1) :
              m * DelayNow.expected_block_time < delay_args.connection_delay

BlockDelayElapsed ==
    DelayNow.height - delay_args.client_update.height >= CeilBlocks

\* C17: verify_delay_passed yields true only when both the time delay and the
\* block delay, ceil(connection_delay / expected_block_time) blocks of the
\* chain the delay is verified on, have elapsed; when the gate is reached and
\* only one of the two has elapsed, it yields false.
C17_BothDelaysRequired ==
    DelayDone =>
        /\ (delay_result.status = "Ok" /\ delay_result.value) =>
              GateReached /\ TimeDelayElapsed /\ BlockDelayElapsed
        /\ (GateReached /\ ~(TimeDelayElapsed /\ BlockDelayElapsed)) =>
              delay_result = DelayOk(FALSE)

\* on the sink, the time delay has elapsed and the block delay has not, by a
\* block count that only the rounding up requires
C17_Witness ==
    /\ DelayDone
    /\ delay_args.verify_delay_on = "Sink"
    /\ GateReached
    /\ TimeDelayElapsed
    /\ ~BlockDelayElapsed
    /\ DelayNow.height - delay_args.client_update.height
          >= delay_args.connection_delay \div DelayNow.expected_block_time
    /\ delay_result = DelayOk(FALSE)

\* the client update query was made and failed
UpdateQueryFailed ==
    /\ ~delay_args.client_update.is_ok
    /\ delay_args.verify_delay_on = "Sink" => delay_args.client_consensus = "Some"

\* C30: verify_delay_passed fails closed: when the query for the client update
\* time and height fails it returns Ok(false), on Source and on Sink; and when
\* the query answers, the result is the delay test on the timestamp, height
\* and expected block time of the source for Source and of the sink for Sink.
C30_FailsClosed ==
    DelayDone =>
        /\ UpdateQueryFailed => delay_result = [status |-> "Ok", value |-> FALSE]
        /\ GateReached =>
              /\ delay_result.status = "Ok"
              /\ delay_result.value <=> (TimeDelayElapsed /\ BlockDelayElapsed)

\* on the sink, the consensus state is there, the client update query fails,
\* and no delay is configured
C30_Witness ==
    /\ DelayDone
    /\ delay_args.verify_delay_on = "Sink"
    /\ UpdateQueryFailed
    /\ delay_args.connection_delay = 0
    /\ delay_result = [status |-> "Ok", value |-> FALSE]

\* C23: the proof-height and delay-gate routines return a typed result and
\* never crash: on the Sink branch verify_delay_passed returns Ok or Err when
\* the consensus-state query fails or answers without a consensus state, and
\* get_timeout_proof_height returns None, not a panic, for a packet whose
\* timeout has not been reached on the sink.
C23_TypedResultNeverPanic ==
    /\ (DelayDone /\ delay_args.verify_delay_on = "Sink"
                  /\ delay_args.client_consensus \in {"Err", "None"}) =>
          delay_result.status \in {"Ok", "Err"}
    /\ (timeout_pc = "done" /\ timeout_args.timeout_variant = "None") =>
          timeout_result.status = "None"

(***************************************************************************)
(* Properties of get_timeout_proof_height (SpecTimeout).                   *)
(***************************************************************************)
TimeoutDone == timeout_pc = "done"

\* the Both variant got as far as the proof-height search
BothSearched ==
    /\ TimeoutDone
    /\ timeout_args.timeout_variant = "Both"
    /\ timeout_result.status = "Search"

\* the sink height estimated from the timestamps
EstimatedSinkHeight ==
    [revision_number |-> timeout_args.sink_height.revision_number,
     revision_height |-> timeout_result.timeout_block_on_b]

\* a is not above b: revision_number first, then revision_height
HeightLe(a, b) ==
    \/ a.revision_number < b.revision_number
    \/ /\ a.revision_number = b.revision_number
       /\ a.revision_height <= b.revision_height

\* C18: for TimeoutVariant::Both the search starts at the minimum of the
\* timestamp-derived estimated sink height and packet.timeout_height, and is
\* bounded by both packet.timeout_height and packet.timeout_timestamp.
C18_BothStartsAtMinimum ==
    BothSearched =>
        /\ timeout_result.start_height \in {EstimatedSinkHeight, timeout_args.timeout_height}
        /\ HeightLe(timeout_result.start_height, EstimatedSinkHeight)
        /\ HeightLe(timeout_result.start_height, timeout_args.timeout_height)
        /\ timeout_result.height_bound = [is_some |-> TRUE, value |-> timeout_args.timeout_height]
        /\ timeout_result.timestamp_bound =
              [is_some |-> TRUE, value |-> timeout_args.timeout_timestamp]

\* the estimate is the lower of the two although its revision_height is the
\* higher: the revision numbers decide
C18_Witness ==
    /\ BothSearched
    /\ timeout_result.start_height = EstimatedSinkHeight
    /\ EstimatedSinkHeight.revision_number < timeout_args.timeout_height.revision_number
    /\ EstimatedSinkHeight.revision_height > timeout_args.timeout_height.revision_height

NonNegative(n) == IF n > 0 THEN n ELSE 0

\* L, T_p, R and H_b, computed over the integers
PacketLifetimeBlocks ==
    NonNegative(timeout_args.source_height.revision_height
                    - timeout_args.packet_creation_height)
PacketTime ==
    timeout_args.source_timestamp
        - timeout_args.source_expected_block_time * PacketLifetimeBlocks
RelativeTimeout == NonNegative(timeout_args.timeout_timestamp - PacketTime)
PacketHeightOnSink ==
    NonNegative(timeout_args.sink_height.revision_height
        - ((timeout_args.source_expected_block_time * PacketLifetimeBlocks)
              \div timeout_args.sink_expected_block_time))

\* C24: for TimeoutVariant::Timestamp with timeout_timestamp <= sink_timestamp
\* the search starts at max(0, H_b + floor(R / sink_block_time) - 1), for
\* every 64-bit packet lifetime L, also for L >= 2^32 (taken here where the
\* packet's creation time T_p is not before the epoch); with
\* timeout_timestamp > sink_timestamp the result is None.
C24_TimestampStartHeight ==
    (TimeoutDone /\ timeout_args.timeout_variant = "Timestamp") =>
        IF timeout_args.timeout_timestamp > timeout_args.sink_timestamp
        THEN timeout_result.status = "None"
        ELSE PacketTime >= 0 =>
                /\ timeout_result.status = "Search"
                /\ timeout_result.start_height =
                      HeightNew(timeout_args.sink_height.revision_number,
                                NonNegative(PacketHeightOnSink
                                    + (RelativeTimeout
                                          \div timeout_args.sink_expected_block_time)
                                    - 1))

\* the same statement for the packets that have lived for fewer than 2^32
\* blocks of the source chain
C24_HoldsBelowU32 ==
    (TimeoutDone /\ PacketLifetimeBlocks < U32Modulus) => C24_TimestampStartHeight

(***************************************************************************)
(* Properties of collect_signatures_for_finalized_block (SpecCollect).     *)
(***************************************************************************)
CsDone == cs_pc = "done"

\* the validators whose key is in a list of collected entries
ListedSigners(list) ==
    { i \in 1..Len(cs_header.validator_set) :
        \E k \in 1..Len(list) : list[k].pub_key = PubKeyBytes(cs_header.validator_set[i]) }

\* the voting power of the signer of one entry
EntryPower(entry) ==
    LET i == CHOOSE j \in 1..Len(cs_header.validator_set) :
                 entry.pub_key = PubKeyBytes(cs_header.validator_set[j])
    IN cs_header.validator_set[i].power

RECURSIVE ListedPower(_)
ListedPower(list) ==
    IF list = <<>> THEN 0 ELSE EntryPower(Head(list)) + ListedPower(Tail(list))

\* exactly circuit_size entries, whose signers' summed power is above 2/3
EnoughForCircuit(list) ==
    /\ Len(list) = cs_circuit_size
    /\ ListedPower(list) * 3 > 2 * total_voting_power(cs_header.validator_set)

RECURSIVE PowerOfSigners(_)
PowerOfSigners(signers) ==
    IF signers = {} THEN 0
    ELSE LET i == CHOOSE j \in signers : TRUE
         IN cs_header.validator_set[i].power + PowerOfSigners(signers \ {i})

\* C20: duplicate signatures of one validator do not increase the
\* accumulated voting power: each validator's power is accumulated at most
\* once, also when the commit holds two BlockIdFlagCommit entries with its
\* address.
C20_DuplicateCountsOnce ==
    (CsDone /\ cs_result.status # "Panic") =>
        cs_result.power <= PowerOfSigners(ListedSigners(cs_result.collected))

\* the validators of the set with a BlockIdFlagCommit entry of the commit
\* whose signature verifies under their key over the vote's sign bytes
ValidSigners ==
    { i \in 1..Len(cs_header.validator_set) :
        \E k \in 1..Len(cs_header.signatures) :
           /\ cs_header.signatures[k].flag = "BlockIdFlagCommit"
           /\ cs_header.signatures[k].validator_address = cs_header.validator_set[i].address
           /\ cs_header.signatures[k].signature = "good" }

\* circuit_size valid signers such that no valid signer left out has more power
HighestPowerSelections ==
    { S \in SUBSET ValidSigners :
        /\ Cardinality(S) = cs_circuit_size
        /\ \A i \in S, j \in ValidSigners \ S :
              cs_header.validator_set[i].power >= cs_header.validator_set[j].power }

\* C25: the greedy selection is complete: whenever at least circuit_size
\* validators have verifying BlockIdFlagCommit signatures and the
\* circuit_size highest-power ones among them hold more than 2/3 of the total
\* voting power, the function returns Some, and the returned signers are
\* exactly those circuit_size highest-power valid signers.
C25_GreedySelectionComplete ==
    (CsDone /\ \E S \in HighestPowerSelections :
                  PowerOfSigners(S) * 3 > 2 * total_voting_power(cs_header.validator_set)) =>
        /\ cs_result.status = "Some"
        /\ ListedSigners(cs_result.list) \in HighestPowerSelections

(***************************************************************************)
(* Properties of the ClientMessage conversions (SpecCodec).                *)
(***************************************************************************)
\* one of the four fields of a raw header is absent
MissingRawField(raw) ==
    \/ raw.signed_header.field = "None"
    \/ raw.validator_set = "None"
    \/ raw.trusted_height.field = "None"
    \/ raw.trusted_validators = "None"

\* a raw misbehaviour lacks a header, or one of its headers lacks a field
MissingInMisbehaviour(raw) ==
    \/ ~raw.header_1.is_some
    \/ ~raw.header_2.is_some
    \/ MissingRawField(raw.header_1.raw)
    \/ MissingRawField(raw.header_2.raw)

\* C22: decoding with a field missing returns an error, never Ok: a raw
\* header lacking signed_header, validator_set, trusted_height or
\* trusted_validators, a raw misbehaviour lacking header_1 or header_2, and
\* an Any of an unknown type URL are all answered with Err.
C22_MissingFieldIsErr ==
    /\ (cm_pc = "converted" /\ MissingInMisbehaviour(cm_raw)) =>
          cm_result.status = "Err"
    /\ (cm_pc = "decoded" /\ cm_any.type_url \notin
            {TENDERMINT_HEADER_TYPE_URL, TENDERMINT_MISBEHAVIOUR_TYPE_URL}) =>
          cm_result = ValidationErr
    /\ (cm_pc = "decoded" /\ ~cm_any.value.malformed
            /\ cm_any.type_url = TENDERMINT_HEADER_TYPE_URL
            /\ MissingRawField(cm_any.value.message)) =>
          cm_result.status = "Err"
    /\ (cm_pc = "decoded" /\ ~cm_any.value.malformed
            /\ cm_any.type_url = TENDERMINT_MISBEHAVIOUR_TYPE_URL
            /\ MissingInMisbehaviour(cm_any.value.message)) =>
          cm_result.status = "Err"

\* an Any of an unknown type URL whose bytes are a convertible header
C22_Witness ==
    /\ cm_pc = "decoded"
    /\ cm_any.type_url = TENDERMINT_CLIENT_MESSAGE_TYPE_URL
    /\ ~cm_any.value.malformed
    /\ HeaderTryFrom(cm_any.value.message).status = "Ok"
    /\ cm_result = ValidationErr

\* C28: encoding a ClientMessage to Any and decoding it back yields the
\* same ClientMessage, for every Header and every Misbehaviour, whatever
\* the client id of the Misbehaviour.
C28_RoundTrip ==
    cm_pc = "round_trip" =>
        /\ cm_result.status = "Ok"
        /\ cm_result.msg = cm_msg

(***************************************************************************)
(* Order and monotonicity of the quorum decision (SpecCollect).            *)
(***************************************************************************)
\* the rearrangements of a list
PermutationsOf(s) ==
    LET n == Len(s)
        bijections == {p \in [1..n -> 1..n] : \A i, j \in 1..n : p[i] = p[j] => i = j}
    IN {[i \in 1..n |-> s[p[i]]] : p \in bijections}

WithSignatures(header, signatures) ==
    [validator_set |-> header.validator_set, signatures |-> signatures]

\* a further vote for the block, by a validator of the set that has no entry
\* in the commit yet, carrying a signature: one that verifies over the
\* vote's sign bytes ("good") or one that verifies over the message the
\* collector checks ("zero")
FurtherValidVotes(header) ==
    {vote \in CollectCommitSigs :
        /\ vote.flag = "BlockIdFlagCommit"
        /\ vote.signature \in {"good", "zero"}
        /\ HasValidator(header.validator_set, vote.validator_address)
        /\ \A k \in NonAbsentIdx(header.signatures) :
              header.signatures[k].validator_address # vote.validator_address}

====
